---- MODULE Spec2Model ----
(***************************************************************************)
(* State-machine model of the rust_snake engine (src/src/lib.rs).          *)
(*                                                                         *)
(* A game is the record of the fields of struct SnakeGame.  The functions  *)
(* of the impl block are operators from a game record to a game record,    *)
(* composed exactly in the order tick() calls them.  A call of the random  *)
(* generator is a nondeterministic choice over the values gen_range can    *)
(* return, so a function that draws returns the SET of games it can        *)
(* produce, one per outcome of its draws.                                  *)
(*                                                                         *)
(* Field status is the control outcome of the last call:                   *)
(*   "ok"       the call returned,                                         *)
(*   "panicked" snake_collided() hit unimplemented!(),                     *)
(*   "hung"     the loop of random_food_pos can never exit.                *)
(* Cell values and snake_lvl are u32; every value of the model stays far   *)
(* below 2^32, so saturating_sub is the only width-sensitive operation.    *)
(***************************************************************************)
EXTENDS Integers, Sequences, FiniteSets, TLC

\* ---- bounds of the model ------------------------------------------------
MaxWidth == 3
MaxHeight == 2
MaxStart == 1
MaxLvl == 3

\* ---- enum Direction / Option<Direction> ---------------------------------
Direction == {"UP", "DOWN", "LEFT", "RIGHT"}
None == "None"
OptDirection == Direction \cup {None}

\* board .. snake_lvl are the fields of struct SnakeGame and status is the
\* outcome of the last call.  The others record the last call for the
\* properties: args are the arguments of the construction, last_call the
\* function called last, last_input its direction input and pre the game
\* at its entry to tick.
VARIABLES board, food_pos, snake_pos, snake_dir, snake_lvl, status,
          pre, last_input, last_call, args

vars == <<board, food_pos, snake_pos, snake_dir, snake_lvl, status,
          pre, last_input, last_call, args>>

\* ---- helpers ------------------------------------------------------------
\* Array2::zeros((board_height, board_width)), indexed (y, x)
zeros(board_height, board_width) ==
    [p \in (0 .. board_height - 1) \X (0 .. board_width - 1) |-> 0]

\* (len_of(Axis(0)), len_of(Axis(1)))
board_size(g) ==
    << Cardinality({p[1] : p \in DOMAIN g.board}),
       Cardinality({p[2] : p \in DOMAIN g.board}) >>

\* rng.gen_range(0, high): any value of the half-open range
gen_range(low, high) == low .. high - 1

\* slip: the timer is decremented only while it is above 1
saturating_sub_above_one(x) == IF x >= 2 THEN x - 1 ELSE x

\* slip: the result of saturating_sub is dropped, the cell keeps its value
saturating_sub_dropped(x) == x

\* u32::saturating_sub(1)
saturating_sub(x) == IF x >= 1 THEN x - 1 ELSE 0

\* slip: the cell holding the largest timer, the head, is left out of the decay
decay_but_maximum(b) ==
    [p \in DOMAIN b |->
        IF \A q \in DOMAIN b : b[q] <= b[p] THEN b[p] ELSE saturating_sub(b[p])]

\* self.board.par_map_inplace(|x| *x = x.saturating_sub(1))
decay(b) == [p \in DOMAIN b |-> saturating_sub(b[p])]

\* ---- fn set_direction ---------------------------------------------------
\* slip: every input is taken, a turn to the opposite direction too
set_direction_any(g, dir) == [g EXCEPT !.snake_dir = dir]

\* slip: with no direction set yet the input is dropped
set_direction_drop_first(g, dir) ==
    IF g.snake_dir # None
    THEN CASE dir = "UP"    -> IF g.snake_dir # "DOWN"  THEN [g EXCEPT !.snake_dir = dir] ELSE g
           [] dir = "DOWN"  -> IF g.snake_dir # "UP"    THEN [g EXCEPT !.snake_dir = dir] ELSE g
           [] dir = "LEFT"  -> IF g.snake_dir # "RIGHT" THEN [g EXCEPT !.snake_dir = dir] ELSE g
           [] dir = "RIGHT" -> IF g.snake_dir # "LEFT"  THEN [g EXCEPT !.snake_dir = dir] ELSE g
    ELSE g

\* slip: RIGHT is refused when the snake already goes RIGHT, not LEFT
set_direction_same(g, dir) ==
    IF g.snake_dir # None
    THEN CASE dir = "UP"    -> IF g.snake_dir # "DOWN"  THEN [g EXCEPT !.snake_dir = dir] ELSE g
           [] dir = "DOWN"  -> IF g.snake_dir # "UP"    THEN [g EXCEPT !.snake_dir = dir] ELSE g
           [] dir = "LEFT"  -> IF g.snake_dir # "RIGHT" THEN [g EXCEPT !.snake_dir = dir] ELSE g
           [] dir = "RIGHT" -> IF g.snake_dir # "RIGHT" THEN [g EXCEPT !.snake_dir = dir] ELSE g
    ELSE [g EXCEPT !.snake_dir = dir]

set_direction(g, dir) ==
    IF g.snake_dir # None
    THEN CASE dir = "UP"    -> IF g.snake_dir # "DOWN"  THEN [g EXCEPT !.snake_dir = dir] ELSE g
           [] dir = "DOWN"  -> IF g.snake_dir # "UP"    THEN [g EXCEPT !.snake_dir = dir] ELSE g
           [] dir = "LEFT"  -> IF g.snake_dir # "RIGHT" THEN [g EXCEPT !.snake_dir = dir] ELSE g
           [] dir = "RIGHT" -> IF g.snake_dir # "LEFT"  THEN [g EXCEPT !.snake_dir = dir] ELSE g
    ELSE [g EXCEPT !.snake_dir = dir]

\* ---- fn move_snake_head -------------------------------------------------
\* slip: unwrap_or(board_size) instead of unwrap_or(board_size - 1)
checked_sub_or_past(x, last) == IF x >= 1 THEN x - 1 ELSE last + 1

\* x.checked_sub(1).unwrap_or(last)
checked_sub_or(x, last) == IF x >= 1 THEN x - 1 ELSE last

\* slip: the head stops at the last row or column instead of wrapping
succ_filter_or_stay(x, size) == IF x + 1 < size THEN x + 1 ELSE x

\* Some(x + 1).filter(|&x| x < size).unwrap_or(0)
succ_filter_or(x, size) == IF x + 1 < size THEN x + 1 ELSE 0

\* slip: with no direction set the head is moved like RIGHT
move_snake_head_default_right(g) ==
    LET size == board_size(g)
        pos  == g.snake_pos
    IN  CASE g.snake_dir = "UP"    ->
               [g EXCEPT !.snake_pos = <<checked_sub_or(pos[1], size[1] - 1), pos[2]>>]
          [] g.snake_dir = "DOWN"  ->
               [g EXCEPT !.snake_pos = <<succ_filter_or(pos[1], size[1]), pos[2]>>]
          [] g.snake_dir = "LEFT"  ->
               [g EXCEPT !.snake_pos = <<pos[1], checked_sub_or(pos[2], size[2] - 1)>>]
          [] OTHER ->
               [g EXCEPT !.snake_pos = <<pos[1], succ_filter_or(pos[2], size[2])>>]

move_snake_head(g) ==
    LET size == board_size(g)
        pos  == g.snake_pos
    IN  CASE g.snake_dir = "UP"    ->
               [g EXCEPT !.snake_pos = <<checked_sub_or(pos[1], size[1] - 1), pos[2]>>]
          [] g.snake_dir = "DOWN"  ->
               [g EXCEPT !.snake_pos = <<succ_filter_or(pos[1], size[1]), pos[2]>>]
          [] g.snake_dir = "LEFT"  ->
               [g EXCEPT !.snake_pos = <<pos[1], checked_sub_or(pos[2], size[2] - 1)>>]
          [] g.snake_dir = "RIGHT" ->
               [g EXCEPT !.snake_pos = <<pos[1], succ_filter_or(pos[2], size[2])>>]
          [] OTHER -> g

\* ---- fn random_pos ------------------------------------------------------
\* the positions one call can return
random_pos(g) ==
    LET size == board_size(g)
    IN  gen_range(0, size[1]) \X gen_range(0, size[2])

\* ---- fn random_food_pos -------------------------------------------------
\* slip: the first drawn position is taken, whatever its cell holds
random_food_pos_any(g) == random_pos(g)

\* loop { let pos = random_pos(); if board[pos] == 0 { break pos } }
\* exits with any drawn position whose cell is 0; when no position can pass
\* the test the loop never exits.
random_food_pos(g) == {pos \in random_pos(g) : g.board[pos] = 0}

\* ---- fn food_collided ---------------------------------------------------
\* slip: the growth is drawn from the generator too, gen_range(1, 3)
food_collided_random_growth(g) ==
    UNION {{[g EXCEPT !.snake_lvl = g.snake_lvl + n, !.food_pos = pos]
            : pos \in random_food_pos(g)} : n \in gen_range(1, 3)}

\* slip: the food moves but the snake does not grow
food_collided_no_growth(g) ==
    IF random_food_pos(g) = {}
    THEN {[g EXCEPT !.status = "hung"]}
    ELSE {[g EXCEPT !.food_pos = pos] : pos \in random_food_pos(g)}

\* snake_lvl is incremented before the call of random_food_pos, food_pos is
\* assigned after it returns
food_collided(g) ==
    LET g1 == [g EXCEPT !.snake_lvl = g.snake_lvl + 1]
    IN  IF random_food_pos(g1) = {}
        THEN {[g1 EXCEPT !.status = "hung"]}
        ELSE {[g1 EXCEPT !.food_pos = pos] : pos \in random_food_pos(g1)}

\* ---- fn snake_collided --------------------------------------------------
\* unimplemented!()
snake_collided(g) == [g EXCEPT !.status = "panicked"]

\* ---- fn check_snake_collision -------------------------------------------
\* slip: the test of snake_dir.is_some() is missing
check_snake_collision_any_dir(g) ==
    LET g1 == IF g.board[g.snake_pos] # 0 THEN snake_collided(g) ELSE g
    IN  IF g1.status # "ok" THEN {g1}
        ELSE IF g1.snake_pos = g1.food_pos THEN food_collided(g1) ELSE {g1}

check_snake_collision(g) ==
    LET g1 == IF g.board[g.snake_pos] # 0 /\ g.snake_dir # None
              THEN snake_collided(g) ELSE g
    IN  IF g1.status # "ok" THEN {g1}
        ELSE IF g1.snake_pos = g1.food_pos THEN food_collided(g1) ELSE {g1}

\* ---- pub fn tick --------------------------------------------------------
\* slip: the head cell is written with snake_lvl - 1
write_head_one_less(g) ==
    IF g.status # "ok" THEN g
    ELSE [g EXCEPT !.board[g.snake_pos] = g.snake_lvl - 1]

\* the last statement of tick, reached only when check_snake_collision returns
write_head(g) ==
    IF g.status # "ok" THEN g
    ELSE [g EXCEPT !.board[g.snake_pos] = g.snake_lvl]

\* slip: the head is moved before the input is applied
tick_move_first(g, snake_dir_input) ==
    LET g1 == [g EXCEPT !.board = decay(g.board)]
        g2 == move_snake_head(g1)
        g3 == IF snake_dir_input # None THEN set_direction(g2, snake_dir_input) ELSE g2
    IN  {write_head(g4) : g4 \in check_snake_collision(g3)}

tick(g, snake_dir_input) ==
    LET g1 == IF snake_dir_input # None THEN set_direction(g, snake_dir_input) ELSE g
        g2 == [g1 EXCEPT !.board = decay(g1.board)]
        g3 == move_snake_head(g2)
    IN  {write_head(g4) : g4 \in check_snake_collision(g3)}

\* ---- pub fn with_rng ----------------------------------------------------
\* slip: the centre is taken as (size - 1) / 2
new_game_low_centre(board_width, board_height, starting_len) ==
    LET board_size0 == <<board_height, board_width>>
    IN  {[board     |-> zeros(board_size0[1], board_size0[2]),
          food_pos  |-> <<y, x>>,
          snake_pos |-> <<(board_size0[1] - 1) \div 2, (board_size0[2] - 1) \div 2>>,
          snake_dir |-> None,
          snake_lvl |-> starting_len,
          status    |-> "ok"]
         : y \in gen_range(0, board_size0[1]), x \in gen_range(0, board_size0[2])}

\* the struct literal of with_rng, one game per draw of the food position
new_game(board_width, board_height, starting_len) ==
    LET board_size0 == <<board_height, board_width>>
    IN  {[board     |-> zeros(board_size0[1], board_size0[2]),
          food_pos  |-> <<y, x>>,
          snake_pos |-> <<board_size0[1] \div 2, board_size0[2] \div 2>>,
          snake_dir |-> None,
          snake_lvl |-> starting_len,
          status    |-> "ok"]
         : y \in gen_range(0, board_size0[1]), x \in gen_range(0, board_size0[2])}

\* game.tick(None); game
\* every pair <<struct literal, game returned>> a construction can produce
with_rng(board_width, board_height, starting_len) ==
    UNION {{<<g0, g>> : g \in tick(g0, None)}
           : g0 \in new_game(board_width, board_height, starting_len)}

\* ---- the state machine --------------------------------------------------
\* the struct the client holds
Game ==
    [board |-> board, food_pos |-> food_pos, snake_pos |-> snake_pos,
     snake_dir |-> snake_dir, snake_lvl |-> snake_lvl, status |-> status]

Init ==
    \E w \in 1 .. MaxWidth, h \in 1 .. MaxHeight, len \in 1 .. MaxStart :
      \E made \in with_rng(w, h, len) :
        LET g == made[2]
        IN  /\ board = g.board
            /\ food_pos = g.food_pos
            /\ snake_pos = g.snake_pos
            /\ snake_dir = g.snake_dir
            /\ snake_lvl = g.snake_lvl
            /\ status = g.status
            /\ pre = made[1]
            /\ last_input = None
            /\ last_call = "with_rng"
            /\ args = [board_width |-> w, board_height |-> h, starting_length |-> len]

\* one call of tick by the client; a panicked or hung game takes no call.
\* The guard on MaxLvl bounds the growth: a call that would raise snake_lvl
\* past it is left out.
Tick ==
    /\ status = "ok"
    /\ \E input \in OptDirection :
         \E g \in tick(Game, input) :
           /\ g.snake_lvl <= MaxLvl
           /\ board' = g.board
           /\ food_pos' = g.food_pos
           /\ snake_pos' = g.snake_pos
           /\ snake_dir' = g.snake_dir
           /\ snake_lvl' = g.snake_lvl
           /\ status' = g.status
           /\ pre' = Game
           /\ last_input' = input
           /\ last_call' = "tick"
           /\ UNCHANGED args

Next == Tick

Spec == Init /\ [][Next]_vars

\* ---- short snakes on a square board ------------------------------------
\* the games of starting levels 3 and 4 on the board of 4 x 4 cells, the
\* smallest one whose width and height are at least 4, followed while the
\* level stays within ShortMaxLvl
ShortMaxLvl == 4

InitShort ==
    \E len \in {3, 4} :
      \E made \in with_rng(4, 4, len) :
        LET g == made[2]
        IN  /\ board = g.board
            /\ food_pos = g.food_pos
            /\ snake_pos = g.snake_pos
            /\ snake_dir = g.snake_dir
            /\ snake_lvl = g.snake_lvl
            /\ status = g.status
            /\ pre = made[1]
            /\ last_input = None
            /\ last_call = "with_rng"
            /\ args = [board_width |-> 4, board_height |-> 4, starting_length |-> len]

TickShort ==
    /\ status = "ok"
    /\ \E input \in OptDirection :
         \E g \in tick(Game, input) :
           /\ g.snake_lvl <= ShortMaxLvl
           /\ board' = g.board
           /\ food_pos' = g.food_pos
           /\ snake_pos' = g.snake_pos
           /\ snake_dir' = g.snake_dir
           /\ snake_lvl' = g.snake_lvl
           /\ status' = g.status
           /\ pre' = Game
           /\ last_input' = input
           /\ last_call' = "tick"
           /\ UNCHANGED args

NextShort == TickShort

SpecShort == InitShort /\ [][NextShort]_vars

\* ---- impl Display: fn fmt ----------------------------------------------
\* "-".repeat(n) and friends: n times the character c
repeat(c, n) == [i \in 1 .. n |-> c]

\* slip: the food test comes first, the food is drawn over the snake
cell_char_food_first(g, ax0, ax1) ==
    IF <<ax0, ax1>> = g.food_pos THEN "F"
    ELSE IF g.board[<<ax0, ax1>>] > 0
    THEN (IF <<ax0, ax1>> = g.snake_pos THEN "@" ELSE "#")
    ELSE " "

\* the character written for cell (ax0, ax1)
cell_char(g, ax0, ax1) ==
    IF g.board[<<ax0, ax1>>] > 0
    THEN (IF <<ax0, ax1>> = g.snake_pos THEN "@" ELSE "#")
    ELSE IF <<ax0, ax1>> = g.food_pos THEN "F"
    ELSE " "

\* the characters of rows ax0, ax0 + 1, ..., each row ended by a newline
RECURSIVE fmt_rows(_, _)
fmt_rows(g, ax0) ==
    IF ax0 >= board_size(g)[1] THEN << >>
    ELSE [i \in 1 .. board_size(g)[2] |-> cell_char(g, ax0, i - 1)]
         \o <<"\n">> \o fmt_rows(g, ax0 + 1)

\* the characters written to the formatter, in order; both rules are as
\* long as the board has rows, len_of(Axis(0))
fmt(g) ==
    repeat("-", board_size(g)[1]) \o <<"\n">>
    \o fmt_rows(g, 0)
    \o repeat("-", board_size(g)[1]) \o <<"\n">>

\* one rendering of the game by the client, println!("{}", game): fmt takes
\* &self and writes to the formatter only
Fmt ==
    /\ status = "ok"
    /\ Len(fmt(Game)) > 0
    /\ pre' = Game
    /\ last_input' = None
    /\ last_call' = "fmt"
    /\ UNCHANGED <<board, food_pos, snake_pos, snake_dir, snake_lvl, status, args>>

NextDisplay == Tick \/ Fmt

\* the game with its rendering
SpecDisplay == Init /\ [][NextDisplay]_vars

\* ======================================================================
\* Properties
\* ======================================================================
\* vocabulary of the properties, written from the arguments of the
\* construction and not from the functions under check
Height == args.board_height
Width == args.board_width
Cells == (0 .. Height - 1) \X (0 .. Width - 1)
Completed == status = "ok"
AfterTick == last_call = "tick"
AfterConstruction == last_call = "with_rng"
Opposite(d) ==
    CASE d = "UP" -> "DOWN" [] d = "DOWN" -> "UP"
      [] d = "LEFT" -> "RIGHT" [] d = "RIGHT" -> "LEFT"
\* the modular successor of position p in direction d
ModSucc(p, d) ==
    CASE d = "UP"    -> <<(p[1] + Height - 1) % Height, p[2]>>
      [] d = "DOWN"  -> <<(p[1] + 1) % Height, p[2]>>
      [] d = "LEFT"  -> <<p[1], (p[2] + Width - 1) % Width>>
      [] d = "RIGHT" -> <<p[1], (p[2] + 1) % Width>>
\* the value cell p holds after the decay of the last call
Decayed(p) == IF pre.board[p] >= 1 THEN pre.board[p] - 1 ELSE 0
\* the head the code computes from the current game turned to direction d
Moved(d) == move_snake_head([Game EXCEPT !.snake_dir = d]).snake_pos
\* n moves of the head in direction d from position p
RECURSIVE MoveN(_, _, _)
MoveN(p, d, n) ==
    IF n = 0 THEN p
    ELSE MoveN(move_snake_head([Game EXCEPT !.snake_pos = p, !.snake_dir = d]).snake_pos,
               d, n - 1)

\* C1: in every state (after construction, after every tick, completed or
\* aborted) the head is on the board, row in [0, height) and column in
\* [0, width), and so is the cell it would move to in any direction.
C1_HeadInBounds ==
    /\ snake_pos \in Cells
    /\ \A d \in Direction : Moved(d) \in Cells

\* C1 witness: a tick moved the head across the top edge of a board of
\* several rows and columns.
C1_Witness ==
    /\ AfterTick /\ Completed /\ Height >= 2 /\ Width >= 2
    /\ snake_dir = "UP" /\ pre.snake_pos[1] = 0 /\ snake_pos[1] = Height - 1

\* C2: move_snake_head is the modular successor: from the head of every
\* reachable game and for every direction it yields ModSucc, every tick with
\* a direction set moved the head to ModSucc of the old head, and Width
\* moves LEFT or RIGHT, or Height moves UP or DOWN, come back to the start.
C2_ModularSuccessor ==
    /\ \A d \in Direction : Moved(d) = ModSucc(snake_pos, d)
    /\ (AfterTick /\ snake_dir # None) => snake_pos = ModSucc(pre.snake_pos, snake_dir)
    /\ \A d \in {"LEFT", "RIGHT"} : MoveN(snake_pos, d, Width) = snake_pos
    /\ \A d \in {"UP", "DOWN"} : MoveN(snake_pos, d, Height) = snake_pos

\* C2 witness: a tick moved the head LEFT from column 0 to the last column
\* of a board three columns wide.
C2_Witness ==
    /\ AfterTick /\ Completed /\ Width = 3
    /\ snake_dir = "LEFT" /\ pre.snake_pos[2] = 0 /\ snake_pos = <<pre.snake_pos[1], 2>>

\* C3: the turn rule.  A tick with input D on a game with a direction keeps
\* the direction when D is its opposite and takes D otherwise; with no
\* direction yet it takes D.  A refused turn is no error of its own: the
\* head moved in the old direction and every other cell decayed.
C3_TurnRule ==
    (AfterTick /\ last_input # None) =>
        /\ pre.snake_dir = None => snake_dir = last_input
        /\ pre.snake_dir # None =>
             snake_dir = IF last_input = Opposite(pre.snake_dir)
                         THEN pre.snake_dir ELSE last_input
        /\ (pre.snake_dir # None /\ last_input = Opposite(pre.snake_dir)) =>
             /\ snake_pos = ModSucc(pre.snake_pos, pre.snake_dir)
             /\ \A p \in Cells \ {snake_pos} : board[p] = Decayed(p)

\* C3 witness: a completed tick refused a turn to the opposite direction.
C3_Witness ==
    /\ AfterTick /\ Completed /\ pre.snake_dir = "LEFT" /\ last_input = "RIGHT"
    /\ snake_dir = "LEFT" /\ snake_pos # pre.snake_pos

\* the games two further ticks without input lead to, as <<first, second>>
TwoAhead == UNION {{<<g1, g2>> : g2 \in tick(g1, None)} : g1 \in tick(Game, None)}

\* C4: the board update of a tick.  After every completed call (the seed
\* tick of the construction included) every cell but the head holds its old
\* value less 1, floored at 0, and the head cell holds the new snake_lvl.
\* The trail: after two further ticks in one direction that eat nothing,
\* the head holds L, the cell left last L - 1 and the cell left before
\* max(L - 2, 0).
C4_BoardUpdate ==
    /\ Completed =>
         \A p \in Cells : board[p] = IF p = snake_pos THEN snake_lvl ELSE Decayed(p)
    /\ (Completed /\ snake_dir # None) =>
         \A t \in TwoAhead :
           (t[2].status = "ok" /\ t[2].snake_lvl = snake_lvl) =>
              /\ t[2].board[t[2].snake_pos] = snake_lvl
              /\ t[1].snake_pos # t[2].snake_pos =>
                   t[2].board[t[1].snake_pos] = snake_lvl - 1
              /\ snake_pos \notin {t[1].snake_pos, t[2].snake_pos} =>
                   t[2].board[snake_pos] = IF snake_lvl >= 2 THEN snake_lvl - 2 ELSE 0

\* C4 witness: a completed tick moved the head off a cell that keeps a
\* positive value, onto a cell other than the one the food was on.
C4_Witness ==
    /\ AfterTick /\ Completed /\ snake_pos # pre.snake_pos
    /\ board[pre.snake_pos] = snake_lvl - 1 /\ snake_lvl >= 2
    /\ snake_pos # pre.food_pos

\* C5: the growth rule.  After every completed call snake_lvl is the old
\* level plus 1 when the head after the move is on the food position held
\* at the start of the call, and the old level otherwise.
C5_GrowthRule ==
    Completed =>
        snake_lvl = pre.snake_lvl + (IF snake_pos = pre.food_pos THEN 1 ELSE 0)

\* C5 witness: a completed client tick moved the head onto the food and the
\* level went up.
C5_Witness ==
    /\ AfterTick /\ Completed /\ snake_pos # pre.snake_pos
    /\ snake_pos = pre.food_pos /\ snake_lvl = pre.snake_lvl + 1

\* C6: the target of the food relocation.  When a completed call ate the
\* food, the new food_pos is a cell of the board whose value after this
\* call's decay is 0; a call that did not eat, or did not return, leaves
\* food_pos as it was.
C6_FoodRelocation ==
    IF Completed /\ snake_pos = pre.food_pos
    THEN food_pos \in Cells /\ Decayed(food_pos) = 0
    ELSE food_pos = pre.food_pos

\* C6 witness: a completed tick ate the food while another cell still held
\* a positive value after the decay, and the food went to a different cell.
C6_Witness ==
    /\ AfterTick /\ Completed /\ snake_pos = pre.food_pos
    /\ food_pos # pre.food_pos
    /\ \E p \in Cells : Decayed(p) > 0

\* C7 (as claimed): when the food is on the cell ahead of the head in the
\* direction of travel and the board has an empty cell, a completed tick
\* raises the level by exactly 1 and leaves food_pos different from before.
C7_FoodLeavesEatenCell ==
    ( /\ AfterTick /\ Completed /\ snake_dir # None
      /\ pre.food_pos = ModSucc(pre.snake_pos, snake_dir)
      /\ \E p \in Cells : Decayed(p) = 0 )
    => (snake_lvl = pre.snake_lvl + 1 /\ food_pos # pre.food_pos)

\* C8: the initial layout.  Right after construction the call has returned,
\* the board is height x width, the head is at (height / 2, width / 2), no
\* direction is set, the head cell is nonzero and every other cell is 0.
C8_InitialLayout ==
    AfterConstruction =>
        /\ Completed
        /\ DOMAIN board = Cells
        /\ snake_pos = <<Height \div 2, Width \div 2>>
        /\ snake_dir = None
        /\ board[snake_pos] # 0
        /\ \A p \in Cells \ {snake_pos} : board[p] = 0

\* C8 witness: a constructed 3 x 2 game with the food off the head.
C8_Witness ==
    /\ AfterConstruction /\ Width = 3 /\ Height = 2
    /\ snake_pos = <<1, 1>> /\ food_pos # snake_pos /\ board[snake_pos] > 0

\* C9 (as claimed): right after construction with starting level L the head
\* cell holds L and snake_lvl is L.
C9_InitialLevel ==
    AfterConstruction =>
        /\ snake_lvl = args.starting_length
        /\ board[snake_pos] = args.starting_length

\* C10: self-collision.  A client tick aborts exactly when a direction is
\* set after the turn step and the cell the head moved onto still holds a
\* value > 0 after the decay.  The abort comes before the food check and the
\* head write: level and food are as before and the board is the decayed
\* one.  The construction, and a tick with no direction set, never abort.
C10_SelfCollision ==
    /\ AfterTick =>
         (status = "panicked" <=> (snake_dir # None /\ Decayed(snake_pos) > 0))
    /\ status = "panicked" =>
         /\ snake_lvl = pre.snake_lvl
         /\ food_pos = pre.food_pos
         /\ \A p \in Cells : board[p] = Decayed(p)
    /\ AfterConstruction => status # "panicked"

\* C10 witness: a tick aborted on a cell that is also the food position.
C10_Witness ==
    /\ AfterTick /\ status = "panicked" /\ snake_pos = food_pos
    /\ snake_pos # pre.snake_pos

\* C11 (as claimed): the board-full case of the food relocation is never
\* reached: whenever a call eats the food some cell holds 0 at relocation
\* time, so the loop of random_food_pos can exit and no call hangs in it.
C11_RelocationCanExit ==
    /\ status # "hung"
    /\ (Completed /\ snake_pos = pre.food_pos) => \E p \in Cells : Decayed(p) = 0

C13_ClientTicksHaveDirection ==
    AfterTick => snake_dir # None

\* C13 (amended): after construction no direction is set.  A client tick
\* runs its move step with snake_dir undetermined exactly when it has no
\* input and no direction was set before it, and then the head stays where
\* it was; every other client tick moves the head one cell in the direction
\* set.
C13_DirectionAfterFirstInput ==
    /\ AfterConstruction => snake_dir = None
    /\ AfterTick =>
         /\ snake_dir = None <=> (pre.snake_dir = None /\ last_input = None)
         /\ snake_dir = None => snake_pos = pre.snake_pos
         /\ snake_dir # None => snake_pos = ModSucc(pre.snake_pos, snake_dir)

\* C13 witness: a completed client tick with no input on a game with no
\* direction yet, on a board of several cells; the head did not move.
C13_Witness ==
    /\ AfterTick /\ Completed /\ last_input = None /\ pre.snake_dir = None
    /\ snake_dir = None /\ snake_pos = pre.snake_pos /\ Width >= 2

\* the turn rule takes input d on the game the last call started from
Accepted(d) == pre.snake_dir = None \/ d # Opposite(pre.snake_dir)

\* C14: the turn comes before the move.  A tick whose input D the turn rule
\* takes moves the head one cell in direction D in that same tick, and the
\* self-collision test, the food test and the head write use that cell; a
\* tick with no input on a game with a direction moves the head one cell in
\* the stored direction.
C14_TurnBeforeMove ==
    AfterTick =>
        /\ (last_input # None /\ Accepted(last_input)) =>
             LET dest == ModSucc(pre.snake_pos, last_input)
             IN  /\ snake_pos = dest
                 /\ status = "panicked" <=> Decayed(dest) > 0
                 /\ status # "panicked" =>
                      snake_lvl = pre.snake_lvl + (IF dest = pre.food_pos THEN 1 ELSE 0)
                 /\ Completed => board[dest] = snake_lvl
        /\ (last_input = None /\ pre.snake_dir # None) =>
             /\ snake_dir = pre.snake_dir
             /\ snake_pos = ModSucc(pre.snake_pos, pre.snake_dir)

\* C14 witness: a completed tick turned from LEFT to UP on a board of
\* several rows and the head went up, not left, onto the food.
C14_Witness ==
    /\ AfterTick /\ Completed /\ pre.snake_dir = "LEFT" /\ last_input = "UP"
    /\ Height >= 2 /\ Width >= 2
    /\ snake_pos = ModSucc(pre.snake_pos, "UP")
    /\ snake_pos # ModSucc(pre.snake_pos, "LEFT")
    /\ snake_pos = pre.food_pos /\ board[snake_pos] = pre.snake_lvl + 1

\* C15: the frame of a tick without input.  On a game with no direction set
\* it leaves snake_pos and snake_dir as they were; on every game it leaves
\* snake_dir as it was.  So no call ever takes a direction away: a direction
\* set before a tick is still a direction after it.
C15_DirectionlessFrame ==
    /\ (last_input = None /\ pre.snake_dir = None) =>
         (snake_pos = pre.snake_pos /\ snake_dir = None)
    /\ last_input = None => snake_dir = pre.snake_dir
    /\ pre.snake_dir # None => snake_dir # None

\* C15 witness: a client tick without input on a game with no direction,
\* whose head could have moved: the board has several columns and the head
\* cell was written again.
C15_Witness ==
    /\ AfterTick /\ Completed /\ last_input = None /\ pre.snake_dir = None
    /\ Width >= 2 /\ snake_pos = pre.snake_pos /\ board[snake_pos] = snake_lvl
    /\ snake_pos # pre.food_pos

\* the body cells of the game the last call started from: nonzero cells
\* other than its head
BodyCells == {p \in Cells \ {pre.snake_pos} : pre.board[p] > 0}

\* C16: tail decay.  A cell other than the head holding v > 0 holds v - 1
\* after one further completed tick and v - 2 after two (while that is
\* positive), and 0 after the v-th unless the head has just entered it; a
\* tick that moves the head onto it earlier aborts.
C16_TailDecay ==
    \A p \in BodyCells :
        LET v == pre.board[p]
        IN  /\ (Completed /\ v >= 2) => (board[p] = v - 1 /\ snake_pos # p)
            /\ (Completed /\ v = 1 /\ snake_pos # p) => board[p] = 0
            /\ (snake_pos = p /\ v >= 2) => status = "panicked"
            /\ (Completed /\ v >= 2) =>
                 \A input \in OptDirection : \A g \in tick(Game, input) :
                    /\ (g.status = "ok" /\ v >= 3) =>
                         (g.board[p] = v - 2 /\ g.snake_pos # p)
                    /\ (g.status = "ok" /\ v = 2 /\ g.snake_pos # p) => g.board[p] = 0
                    /\ (g.snake_pos = p /\ v >= 3) => g.status = "panicked"

\* C16 witness: a body cell held 2 before the last completed tick, holds 1
\* now, and a further tick can complete and leave it at 0 while another
\* further tick moves the head onto it and aborts.
C16_Witness ==
    /\ AfterTick /\ Completed
    /\ \E p \in BodyCells :
         /\ pre.board[p] = 2 /\ board[p] = 1
         /\ \E input \in OptDirection : \E g \in tick(Game, input) :
              g.status = "ok" /\ g.board[p] = 0
    /\ \E q \in Cells \ {snake_pos} : \E input \in OptDirection :
         \E g \in tick(Game, input) :
              board[q] >= 2 /\ g.snake_pos = q /\ g.status = "panicked"

\* the index in the rendering of the character of cell p: after the first
\* rule and its newline, rows of Width characters and a newline
CharIndex(p) == (Height + 1) + p[1] * (Width + 1) + p[2] + 1
\* how many times character c occurs in sequence out
Count(out, c) == Cardinality({i \in 1 .. Len(out) : out[i] = c})

\* C17: the rendering of a reachable game.  The text has the two rules and
\* Height rows of Width characters; it holds exactly one '@', at the head;
\* every other nonzero cell is '#'; 'F' occurs at most once, at the food
\* position and only when the food cell holds 0; every other cell is a
\* space; and a rendering leaves the game as it was.
C17_Rendering ==
    LET out == fmt(Game)
    IN  /\ Len(out) = 2 * (Height + 1) + Height * (Width + 1)
        /\ Count(out, "@") = 1 /\ out[CharIndex(snake_pos)] = "@"
        /\ Count(out, "F") <= 1
        /\ \A p \in Cells \ {snake_pos} :
             out[CharIndex(p)] = IF board[p] > 0 THEN "#"
                                 ELSE IF p = food_pos THEN "F" ELSE " "
        /\ Count(out, "F") = 1 <=> board[food_pos] = 0
        /\ last_call = "fmt" => Game = pre

\* C17 witness: a rendering of a game whose food lies hidden under a body
\* cell, drawn '#'.
C17_Witness ==
    /\ last_call = "fmt" /\ Completed
    /\ food_pos # snake_pos /\ board[food_pos] > 0
    /\ fmt(Game)[CharIndex(food_pos)] = "#"
    /\ Count(fmt(Game), "F") = 0

\* C18: the head is the maximum.  After construction and after every
\* completed tick the head cell holds snake_lvl and every other cell holds
\* a value strictly below it.
C18_HeadIsMaximum ==
    Completed =>
        /\ board[snake_pos] = snake_lvl
        /\ \A p \in Cells \ {snake_pos} : board[p] < snake_lvl

\* C18 witness: after a completed tick that ate the food the old head cell
\* holds the old level less 1, two below the new head.
C18_Witness ==
    /\ AfterTick /\ Completed /\ snake_pos = pre.food_pos
    /\ snake_pos # pre.snake_pos /\ pre.snake_lvl >= 2
    /\ board[pre.snake_pos] = snake_lvl - 2

\* the cells of the board holding a value above 0
Nonzero == {p \in Cells : board[p] > 0}

\* C19: the body length.  After construction and after every completed
\* tick the nonzero cells hold pairwise distinct values, so there are at
\* most snake_lvl of them.
C19_BodyLength ==
    Completed =>
        /\ \A p \in Nonzero : \A q \in Nonzero : board[p] = board[q] => p = q
        /\ Cardinality(Nonzero) <= snake_lvl

\* C19 witness: a completed tick left a snake of three cells at level 3.
C19_Witness ==
    /\ AfterTick /\ Completed /\ snake_lvl = 3 /\ Cardinality(Nonzero) = 3

\* C20: no self-collision for short snakes.  A tick that starts with
\* snake_lvl <= 4 on a board whose width and height are both at least
\* snake_lvl does not abort, whatever its input and the history.
C20_ShortSnakeNeverCollides ==
    ( /\ AfterTick /\ pre.snake_lvl <= 4
      /\ Width >= pre.snake_lvl /\ Height >= pre.snake_lvl )
    => status # "panicked"

\* C20 witness: a tick at level 4 closed a square of four moves: the head
\* is back on the cell it left three ticks ago, which held 1 before the
\* tick and had just decayed to 0, and the tick completed.
C20_Witness ==
    /\ AfterTick /\ Completed /\ pre.snake_lvl = 4 /\ snake_lvl = 4
    /\ Width >= 4 /\ Height >= 4
    /\ pre.board[snake_pos] = 1
    /\ Cardinality(Nonzero) = 4

====
